---- MODULE Spec2Model ----
(***************************************************************************)
(* Model of the MQ broker modules of community.aws:                        *)
(*   plugins/modules/mq_broker.py       (reconcile: present/absent/restarted) *)
(*   plugins/modules/mq_broker_info.py  (describe)                         *)
(*   plugins/modules/mq_user_info.py    (paginated user listing)           *)
(*                                                                         *)
(* A Python dict is a TLA+ function whose DOMAIN is the dict's key set.    *)
(* module.params is kept as the function of its non-None entries: a        *)
(* parameter that is None in Python is a key outside DOMAIN params, so     *)
(* "module.params[p] is not None" reads "p \in DOMAIN params".             *)
(***************************************************************************)
EXTENDS Integers, Sequences, FiniteSets, TLC

VARIABLES
    brokers,        \* remote system: the listing, one record per broker
    calls,          \* every transport call issued so far, in order
    params,         \* params[p]: module.params of invocation p (non-None entries)
    check_mode,     \* check_mode[p]: module.check_mode
    pc,             \* pc[p]: the steps of main() invocation p has still to take
    broker_id,      \* broker_id[p]: what get_broker_id returned
    exit,           \* exit[p]: "idle", "running", "exit_json", "fail_json", "traceback"
    msg,            \* msg[p]: message of fail_json_aws
    result,         \* result[p]: the 'broker' payload of exit_json
    changed,        \* changed[p]: the 'changed' flag of exit_json
    desired_state,        \* Parameter Set Builder on its own: module.params handed in
    use_defaults,       \*   its apply_defaults argument
    drop_create_only, \*   its ignore_create_params argument
    request,              \*   the kwargs it returned
    built,                \*   whether it has returned
    all_users,        \* remote system: the users of the broker, in the server's order
    next_token,       \* next_token[p] of get_user_records
    first_query,      \* first_query[p] of get_user_records
    response_records, \* response_records[p]: what get_user_records has gathered
    records           \* records[p] of get_user_info: the records after filtering

remoteVars == <<brokers, calls>>
procVars == <<params, check_mode, pc, broker_id, exit, msg, result, changed>>
buildVars == <<desired_state, use_defaults, drop_create_only, request, built>>
userVars == <<all_users, next_token, first_query, response_records, records>>
vars == <<brokers, calls, params, check_mode, pc, broker_id, exit, msg, result, changed,
          desired_state, use_defaults, drop_create_only, request, built,
          all_users, next_token, first_query, response_records, records>>

---------------------------------------------------------------------------
(* Bounds *)
NumProcs == 2        \* invocations the model holds
MaxSupplied == 2     \* optional parameters a caller sets away from their default
                     \* (security_groups, which every creation needs, apart)
MaxBrokers == 1      \* brokers in the remote listing at the start
MaxListing == 3      \* brokers in the listing the describe entry point scans
MaxUsers == 3        \* users the broker holds
MaxRequests == 3     \* list_users requests one fetch may issue

Procs == 1..NumProcs

---------------------------------------------------------------------------
(* Python values *)
None == "None"
EmptyDict == [k \in {} |-> k]

\* d[k] = v
Put(d, k, v) == [j \in DOMAIN d \cup {k} |-> IF j = k THEN v ELSE d[j]]
\* del d[k]
Del(d, k) == [j \in DOMAIN d \ {k} |-> d[j]]
\* truth value of an identifier: None and '' are false
Truthy(id) == id \notin {None, ""}

---------------------------------------------------------------------------
(* Static tables of mq_broker.py *)

\* flat parameter name -> API path; a path is held as the list of its
\* segments, i.e. as mapped_key.split('/')
PARAMS_MAP ==
    [ authentication_strategy       |-> <<"AuthenticationStrategy">>,
      auto_minor_version_upgrade    |-> <<"AutoMinorVersionUpgrade">>,
      broker_name                   |-> <<"BrokerName">>,
      deployment_mode               |-> <<"DeploymentMode">>,
      use_aws_owned_key             |-> <<"EncryptionOptions", "UseAwsOwnedKey">>,
      kms_key_id                    |-> <<"EncryptionOptions", "KmsKeyId">>,
      engine_type                   |-> <<"EngineType">>,
      engine_version                |-> <<"EngineVersion">>,
      host_instance_type            |-> <<"HostInstanceType">>,
      enable_audit_log              |-> <<"Logs", "Audit">>,
      enable_general_log            |-> <<"Logs", "General">>,
      maintenance_window_start_time |-> <<"MaintenanceWindowStartTime">>,
      publicly_accessible           |-> <<"PubliclyAccessible">>,
      security_groups               |-> <<"SecurityGroups">>,
      storage_type                  |-> <<"StorageType">>,
      subnet_ids                    |-> <<"SubnetIds">>,
      users                         |-> <<"Users">> ]

DEFAULTS ==
    [ authentication_strategy    |-> "SIMPLE",
      auto_minor_version_upgrade |-> FALSE,
      deployment_mode            |-> "SINGLE_INSTANCE",
      use_aws_owned_key          |-> TRUE,
      engine_type                |-> "ACTIVEMQ",
      engine_version             |-> "5.15.13",
      host_instance_type         |-> "mq.t3.micro",
      enable_audit_log           |-> FALSE,
      enable_general_log         |-> FALSE,
      publicly_accessible        |-> FALSE,
      storage_type               |-> "EFS" ]

\* iteration order of "for p_name in DEFAULTS"
DefaultsOrder ==
    << "authentication_strategy", "auto_minor_version_upgrade", "deployment_mode",
       "use_aws_owned_key", "engine_type", "engine_version", "host_instance_type",
       "enable_audit_log", "enable_general_log", "publicly_accessible", "storage_type" >>

CREATE_ONLY_PARAMS ==
    { "deployment_mode", "use_aws_owned_key", "kms_key_id", "engine_type",
      "maintenance_window_start_time", "publicly_accessible", "storage_type",
      "subnet_ids", "users", "tags" }

\* iteration order of "for p_name in module.params": the argument_spec of
\* main(), followed by a common argument of AnsibleAWSModule
ParamsOrder ==
    << "broker_name", "state",
       "deployment_mode", "use_aws_owned_key", "kms_key_id", "engine_type",
       "maintenance_window_start_time", "publicly_accessible", "storage_type",
       "subnet_ids", "users", "tags",
       "authentication_strategy", "auto_minor_version_upgrade", "engine_version",
       "host_instance_type", "enable_audit_log", "enable_general_log",
       "security_groups", "region" >>

\* defaults the argument_spec itself gives (never None in module.params)
ArgSpecDefaults ==
    [ auto_minor_version_upgrade |-> TRUE,
      enable_audit_log           |-> FALSE,
      enable_general_log         |-> FALSE ]

---------------------------------------------------------------------------
(* Field-Path Compiler and Parameter Set Builder *)

\* SetPath that starts every intermediate mapping afresh
RECURSIVE SetPathOverwrite(_, _, _)
SetPathOverwrite(data, key_list, value) ==
    IF Len(key_list) > 1
    THEN Put(data, Head(key_list), SetPathOverwrite(EmptyDict, Tail(key_list), value))
    ELSE Put(data, key_list[1], value)

\* the loop of _set_kwarg over key_list, outermost segment first
RECURSIVE SetPath(_, _, _)
SetPath(data, key_list, value) ==
    IF Len(key_list) > 1
    THEN LET this_key == Head(key_list)
             sub == IF this_key \in DOMAIN data THEN data[this_key] ELSE EmptyDict
         IN  Put(data, this_key, SetPath(sub, Tail(key_list), value))
    ELSE Put(data, key_list[1], value)

_set_kwarg(kwargs, key, value) == SetPath(kwargs, PARAMS_MAP[key], value)

\* for p_name in names: _set_kwarg(kwargs, p_name, values[p_name])
RECURSIVE SetAll(_, _, _)
SetAll(kwargs, names, values) ==
    IF names = <<>> THEN kwargs
    ELSE SetAll(_set_kwarg(kwargs, Head(names), values[Head(names)]), Tail(names), values)

\* WrittenParams without the "continue" for creation-only parameters
WrittenParamsNoSuppress(module_params, ignore_create_params) ==
    LET Writes(p_name) ==
            /\ p_name \in DOMAIN module_params
            /\ p_name \in DOMAIN PARAMS_MAP
    IN  SelectSeq(ParamsOrder, Writes)

\* the parameters the second loop of _fill_kwargs writes, in loop order
WrittenParams(module_params, ignore_create_params) ==
    LET Writes(p_name) ==
            /\ p_name \in DOMAIN module_params
            /\ ~(ignore_create_params /\ p_name \in CREATE_ONLY_PARAMS)
            /\ p_name \in DOMAIN PARAMS_MAP
    IN  SelectSeq(ParamsOrder, Writes)

_fill_kwargs(module_params, apply_defaults, ignore_create_params) ==
    LET seeded == IF apply_defaults THEN SetAll(EmptyDict, DefaultsOrder, DEFAULTS)
                  ELSE EmptyDict
    IN  SetAll(seeded, WrittenParams(module_params, ignore_create_params), module_params)

\* _fill_kwargs with "for p_name in module.params" visiting the keys in order
FillVisiting(order, module_params, apply_defaults, ignore_create_params) ==
    LET seeded == IF apply_defaults THEN SetAll(EmptyDict, DefaultsOrder, DEFAULTS)
                  ELSE EmptyDict
        Writes(p_name) ==
            /\ p_name \in DOMAIN module_params
            /\ ~(ignore_create_params /\ p_name \in CREATE_ONLY_PARAMS)
            /\ p_name \in DOMAIN PARAMS_MAP
    IN  SetAll(seeded, SelectSeq(order, Writes), module_params)

---------------------------------------------------------------------------
(* Requests built by create_broker and update_broker *)

\* the 'stupid default' user of create_broker
DefaultUsers ==
    << [Username |-> "admin", Password |-> "adminPassword",
        ConsoleAccess |-> TRUE, Groups |-> <<>>] >>

\* CreateKwargs that leaves UseAwsOwnedKey as _fill_kwargs wrote it
CreateKwargsFlagKept(module_params) ==
    LET kwargs == _fill_kwargs(module_params, TRUE, FALSE)
    IN  IF "Users" \notin DOMAIN kwargs
        THEN Put(kwargs, "Users", DefaultUsers) ELSE kwargs

\* kwargs of create_broker as handed to conn.create_broker
CreateKwargs(module_params) ==
    LET kwargs == _fill_kwargs(module_params, TRUE, FALSE)
        withUsers == IF "Users" \notin DOMAIN kwargs
                     THEN Put(kwargs, "Users", DefaultUsers) ELSE kwargs
    IN  IF /\ "EncryptionOptions" \in DOMAIN withUsers
           /\ "UseAwsOwnedKey" \in DOMAIN withUsers["EncryptionOptions"]
        THEN Put(withUsers, "EncryptionOptions",
                 Put(withUsers["EncryptionOptions"], "UseAwsOwnedKey", FALSE))
        ELSE withUsers

LdapNotSupported == "'AuthenticationStrategy=LDAP' not supported, yet"
NoSecurityGroup == "At least one security group must be specified on broker creation"

\* CreateFault looking the name up in the listing once more before creating
CreateFaultNameTaken(module_params) ==
    LET kwargs == _fill_kwargs(module_params, TRUE, FALSE)
    IN  IF \E i \in DOMAIN brokers : brokers[i].BrokerName = kwargs["BrokerName"]
        THEN "Broker exists already"
        ELSE IF kwargs["AuthenticationStrategy"] = "LDAP" THEN LdapNotSupported
        ELSE IF \/ "SecurityGroups" \notin DOMAIN kwargs
                \/ Len(kwargs["SecurityGroups"]) = 0
             THEN NoSecurityGroup
             ELSE ""

\* CreateFault without the security group test
CreateFaultLdapOnly(module_params) ==
    LET kwargs == _fill_kwargs(module_params, TRUE, FALSE)
    IN  IF kwargs["AuthenticationStrategy"] = "LDAP" THEN LdapNotSupported ELSE ""

\* the message create_broker fails with before the create call, "" when it
\* does not fail
CreateFault(module_params) ==
    LET kwargs == _fill_kwargs(module_params, TRUE, FALSE)
    IN  IF kwargs["AuthenticationStrategy"] = "LDAP" THEN LdapNotSupported
        ELSE IF \/ "SecurityGroups" \notin DOMAIN kwargs
                \/ Len(kwargs["SecurityGroups"]) = 0
             THEN NoSecurityGroup
             ELSE ""

\* result of create_broker in check mode
FakeBroker == [BrokerArn |-> "fakeArn", BrokerId |-> "fakeId"]

\* UpdateKwargs built without ignore_create_params
UpdateKwargsKeepCreateOnly(module_params, id) ==
    Put(Del(_fill_kwargs(module_params, FALSE, FALSE), "BrokerName"), "BrokerId", id)

\* UpdateKwargs without "del kwargs['BrokerName']"
UpdateKwargsNameKept(module_params, id) ==
    Put(_fill_kwargs(module_params, FALSE, TRUE), "BrokerId", id)

\* kwargs of update_broker as handed to conn.update_broker
UpdateKwargs(module_params, id) ==
    Put(Del(_fill_kwargs(module_params, FALSE, TRUE), "BrokerName"), "BrokerId", id)

---------------------------------------------------------------------------
(* Resource Locator and the control flow of main() *)

\* ScanBrokerId without the "break": the last match wins
ScanBrokerIdLast(summaries, broker_name) ==
    LET matches == {i \in DOMAIN summaries : summaries[i].BrokerName = broker_name}
    IN  IF matches = {} THEN None
        ELSE summaries[CHOOSE i \in matches : \A j \in matches : j <= i].BrokerId

\* the scan of get_broker_id over response['BrokerSummaries']
RECURSIVE ScanBrokerId(_, _)
ScanBrokerId(summaries, broker_name) ==
    IF summaries = <<>> THEN None
    ELSE IF Head(summaries).BrokerName = broker_name THEN Head(summaries).BrokerId
    ELSE ScanBrokerId(Tail(summaries), broker_name)

\* MainFlow with ensure_present creating whatever the locator found
MainFlowAlwaysCreate(state, id) ==
    CASE state = "present" -> <<"create_broker">>
      [] state = "absent" ->
            IF ~Truthy(id) THEN <<"not_found">>
            ELSE <<"get_broker_info", "delete_broker">>
      [] state = "restarted" ->
            IF ~Truthy(id) THEN <<"not_found">>
            ELSE <<"reboot_broker", "get_broker_info">>

\* MainFlow without the "if not broker_id" tests
MainFlowNoNotFound(state, id) ==
    CASE state = "present" ->
            IF Truthy(id) THEN <<"update_broker">> ELSE <<"create_broker">>
      [] state = "absent" -> <<"get_broker_info", "delete_broker">>
      [] state = "restarted" -> <<"reboot_broker", "get_broker_info">>

\* MainFlow deleting before it describes
MainFlowDeleteFirst(state, id) ==
    CASE state = "present" ->
            IF Truthy(id) THEN <<"update_broker">> ELSE <<"create_broker">>
      [] state = "absent" ->
            IF ~Truthy(id) THEN <<"not_found">>
            ELSE <<"delete_broker", "get_broker_info">>
      [] state = "restarted" ->
            IF ~Truthy(id) THEN <<"not_found">>
            ELSE <<"reboot_broker", "get_broker_info">>

\* MainFlow describing before it reboots
MainFlowDescribeFirst(state, id) ==
    CASE state = "present" ->
            IF Truthy(id) THEN <<"update_broker">> ELSE <<"create_broker">>
      [] state = "absent" ->
            IF ~Truthy(id) THEN <<"not_found">>
            ELSE <<"get_broker_info", "delete_broker">>
      [] state = "restarted" ->
            IF ~Truthy(id) THEN <<"not_found">>
            ELSE <<"get_broker_info", "reboot_broker">>

\* MainFlow restarting a broker it has just updated
MainFlowUpdateThenReboot(state, id) ==
    CASE state = "present" ->
            IF Truthy(id) THEN <<"update_broker", "reboot_broker">>
            ELSE <<"create_broker">>
      [] state = "absent" ->
            IF ~Truthy(id) THEN <<"not_found">>
            ELSE <<"get_broker_info", "delete_broker">>
      [] state = "restarted" ->
            IF ~Truthy(id) THEN <<"not_found">>
            ELSE <<"reboot_broker", "get_broker_info">>

\* what main() does once get_broker_id has returned id
MainFlow(state, id) ==
    CASE state = "present" ->
            IF Truthy(id) THEN <<"update_broker">> ELSE <<"create_broker">>
      [] state = "absent" ->
            IF ~Truthy(id) THEN <<"not_found">>
            ELSE <<"get_broker_info", "delete_broker">>
      [] state = "restarted" ->
            IF ~Truthy(id) THEN <<"not_found">>
            ELSE <<"reboot_broker", "get_broker_info">>

---------------------------------------------------------------------------
(* The remote system behind the transport client *)

BrokerIdOf(n) == "id-" \o ToString(n)
BrokerArnOf(id) == "arn:" \o id

\* exceptions a transport call can raise
Faults == {"ClientError", "BotoCoreError"}
Outcomes == {"ok"} \cup Faults

KnownIds == {brokers[i].BrokerId : i \in DOMAIN brokers}
Described(id) == LET i == CHOOSE j \in DOMAIN brokers : brokers[j].BrokerId = id
                 IN  brokers[i]
WithState(id, st) ==
    [i \in DOMAIN brokers |->
        IF brokers[i].BrokerId = id THEN [brokers[i] EXCEPT !.BrokerState = st]
        ELSE brokers[i]]

\* the call log tells a call that returned from one that raised
Call(p, op, arg, outcome, resp) ==
    calls' = Append(calls, [proc |-> p, op |-> op, arg |-> arg,
                            outcome |-> IF outcome = "ok" THEN "ok" ELSE "raised",
                            resp |-> resp])

---------------------------------------------------------------------------
(* Inputs *)

States == {"present", "absent", "restarted"}
BrokerNames == {"b", "B"}        \* names in the remote listing
RequestNames == {"b"}            \* broker_name of an invocation

\* values a caller gives an optional parameter (for a parameter with an
\* argument_spec default: the values other than that default)
ParamValues ==
    [ deployment_mode               |-> {"ACTIVE_STANDBY_MULTI_AZ"},
      use_aws_owned_key             |-> BOOLEAN,
      kms_key_id                    |-> {"key-1"},
      engine_type                   |-> {"RABBITMQ"},
      maintenance_window_start_time |-> {[DayOfWeek |-> "MONDAY", TimeOfDay |-> "03:00"]},
      publicly_accessible           |-> {TRUE},
      storage_type                  |-> {"EBS"},
      subnet_ids                    |-> {<<"subnet-1">>},
      users                         |-> {<<>>, <<[Username |-> "u1", Password |-> "pw1"]>>},
      tags                          |-> {[env |-> "test"]},
      authentication_strategy       |-> {"SIMPLE", "LDAP"},
      auto_minor_version_upgrade    |-> {FALSE},
      engine_version                |-> {"5.16.2"},
      host_instance_type            |-> {"mq.m5.large"},
      enable_audit_log              |-> {TRUE},
      enable_general_log            |-> {TRUE},
      security_groups               |-> {<<>>, <<"sg-1">>},
      broker_name                   |-> RequestNames,
      state                         |-> States,
      region                        |-> {"us-east-1"} ]

OptionalParams ==
    << "deployment_mode", "use_aws_owned_key", "kms_key_id", "engine_type",
       "maintenance_window_start_time", "publicly_accessible", "storage_type",
       "subnet_ids", "users", "tags",
       "authentication_strategy", "auto_minor_version_upgrade", "engine_version",
       "host_instance_type", "enable_audit_log", "enable_general_log" >>

\* the descriptors that set at most budget of the parameters names
RECURSIVE Descriptors(_, _, _)
Descriptors(base, names, budget) ==
    IF names = <<>> THEN {base}
    ELSE LET rest == Descriptors(base, Tail(names), budget)
         IN  IF budget = 0 THEN rest
             ELSE rest \cup
                  { Put(d, Head(names), v) :
                        d \in Descriptors(base, Tail(names), budget - 1),
                        v \in ParamValues[Head(names)] }

\* module.params of mq_broker: broker_name is required, state and three
\* booleans have argument_spec defaults, security_groups is None or one of
\* its values, and at most MaxSupplied of the other parameters are set
ModuleParams ==
    LET required == UNION { Descriptors(Put(Put(ArgSpecDefaults, "broker_name", n),
                                            "state", st),
                                        <<"security_groups">>, 1) :
                                n \in RequestNames, st \in States }
    IN  UNION { Descriptors(base, OptionalParams, MaxSupplied) : base \in required }

\* listings of at most n brokers; the i-th broker has the i-th identifier
RECURSIVE Listings(_)
Listings(n) ==
    IF n = 0 THEN {<<>>}
    ELSE LET shorter == Listings(n - 1)
         IN  shorter \cup
             { Append(l, [BrokerName |-> name, BrokerId |-> BrokerIdOf(Len(l) + 1),
                          BrokerState |-> "RUNNING"]) :
                   l \in {m \in shorter : Len(m) = n - 1}, name \in BrokerNames }

---------------------------------------------------------------------------
(* Initial states: the invocations in started are about to run main() *)

InitWith(started) ==
    /\ brokers \in Listings(MaxBrokers)
    /\ calls = <<>>
    /\ \E chosen \in [started -> ModuleParams] :
          params = [p \in Procs |-> IF p \in started THEN chosen[p] ELSE EmptyDict]
    /\ \E modes \in [started -> BOOLEAN] :
          check_mode = [p \in Procs |-> IF p \in started THEN modes[p] ELSE FALSE]
    /\ pc = [p \in Procs |-> IF p \in started THEN <<"get_broker_id">> ELSE <<>>]
    /\ broker_id = [p \in Procs |-> None]
    /\ exit = [p \in Procs |-> IF p \in started THEN "running" ELSE "idle"]
    /\ msg = [p \in Procs |-> ""]
    /\ result = [p \in Procs |-> EmptyDict]
    /\ changed = [p \in Procs |-> FALSE]

\* the Parameter Set Builder is not being exercised on its own
BuilderIdle ==
    /\ desired_state = EmptyDict
    /\ use_defaults = TRUE
    /\ drop_create_only = FALSE
    /\ request = EmptyDict
    /\ built = FALSE

\* get_user_records of mq_user_info before its first request
FetchNotStarted ==
    /\ next_token = [p \in Procs |-> ""]
    /\ first_query = [p \in Procs |-> TRUE]
    /\ response_records = [p \in Procs |-> <<>>]
    /\ records = [p \in Procs |-> <<>>]

\* the user listing is not being exercised
UsersIdle ==
    /\ all_users = <<>>
    /\ FetchNotStarted

\* one invocation of main() at a time
Init == InitWith({1}) /\ BuilderIdle /\ UsersIdle

---------------------------------------------------------------------------
(* Steps of main() *)

At(p, step) == pc[p] /= <<>> /\ Head(pc[p]) = step

\* fail_json_aws, or an exception nothing catches
Stop(p, how, message) ==
    /\ exit' = [exit EXCEPT ![p] = how]
    /\ msg' = [msg EXCEPT ![p] = message]
    /\ pc' = [pc EXCEPT ![p] = <<>>]
    /\ UNCHANGED <<result, changed>>

\* SkipsCall without the check mode test
SkipsCallNever(p) == FALSE

\* "if not module.check_mode": the transport call is left out
SkipsCall(p) == check_mode[p]

NotFoundMsg == "Cannot find broker with name"

\* the step is over; after the last step main() calls exit_json with
\* broker=payload, changed=True
Proceed(p, payload) ==
    /\ pc' = [pc EXCEPT ![p] = Tail(pc[p])]
    /\ result' = [result EXCEPT ![p] = payload]
    /\ IF Tail(pc[p]) = <<>>
       THEN /\ exit' = [exit EXCEPT ![p] = "exit_json"]
            /\ changed' = [changed EXCEPT ![p] = TRUE]
       ELSE UNCHANGED <<exit, changed>>
    /\ UNCHANGED msg

get_broker_id(p) ==
    /\ At(p, "get_broker_id")
    /\ \E outcome \in Outcomes :
          IF outcome = "ok"
          THEN LET response == [BrokerSummaries |-> brokers]
                   id == ScanBrokerId(response.BrokerSummaries, params[p].broker_name)
               IN  /\ Call(p, "list_brokers", None, outcome, response)
                   /\ broker_id' = [broker_id EXCEPT ![p] = id]
                   /\ pc' = [pc EXCEPT ![p] = MainFlow(params[p].state, id)]
                   /\ UNCHANGED <<exit, msg, result, changed>>
          ELSE /\ Call(p, "list_brokers", None, outcome, None)
               /\ Stop(p, "fail_json", "Couldn't list broker brokers.")
               /\ UNCHANGED broker_id
    /\ UNCHANGED <<brokers, params, check_mode>>

not_found(p) ==
    /\ At(p, "not_found")
    /\ Stop(p, "fail_json", NotFoundMsg)
    /\ UNCHANGED <<brokers, calls, params, check_mode, broker_id>>

create_broker(p) ==
    /\ At(p, "create_broker")
    /\ LET fault == CreateFault(params[p])
           kwargs == CreateKwargs(params[p])
           id == BrokerIdOf(Len(brokers) + 1)
           response == [BrokerArn |-> BrokerArnOf(id), BrokerId |-> id]
       IN  IF fault /= ""
           THEN /\ Stop(p, "fail_json", fault)
                /\ UNCHANGED <<brokers, calls>>
           ELSE IF SkipsCall(p)
           THEN /\ Proceed(p, FakeBroker)
                /\ UNCHANGED <<brokers, calls>>
           ELSE \E outcome \in Outcomes :
                   /\ Call(p, "create_broker", kwargs, outcome,
                           IF outcome = "ok" THEN response ELSE None)
                   /\ IF outcome = "ok"
                      THEN /\ brokers' = Append(brokers,
                                  [BrokerName |-> kwargs["BrokerName"], BrokerId |-> id,
                                   BrokerState |-> "CREATION_IN_PROGRESS"])
                           /\ Proceed(p, response)
                      ELSE /\ UNCHANGED brokers
                           /\ Stop(p, IF outcome = "ClientError" THEN "fail_json"
                                      ELSE "traceback", outcome)
    /\ UNCHANGED <<params, check_mode, broker_id>>

update_broker(p) ==
    /\ At(p, "update_broker")
    /\ LET kwargs == UpdateKwargs(params[p], broker_id[p])
       IN  IF SkipsCall(p)
           THEN /\ Proceed(p, [BrokerId |-> broker_id[p]])
                /\ UNCHANGED calls
           ELSE \E outcome \in Outcomes :
                   LET response == [BrokerId |-> broker_id[p]]
                   IN  /\ Call(p, "update_broker", kwargs, outcome,
                               IF outcome = "ok" THEN response ELSE None)
                       /\ IF outcome = "ok" THEN Proceed(p, response)
                          ELSE Stop(p, IF outcome = "ClientError" THEN "fail_json"
                                       ELSE "traceback", outcome)
    /\ UNCHANGED <<brokers, params, check_mode, broker_id>>

get_broker_info(p) ==
    /\ At(p, "get_broker_info")
    /\ \E outcome \in Outcomes :
          /\ outcome = "ok" => broker_id[p] \in KnownIds
          /\ IF outcome = "ok"
             THEN /\ Call(p, "describe_broker", broker_id[p], outcome, Described(broker_id[p]))
                  /\ Proceed(p, Described(broker_id[p]))
             ELSE /\ Call(p, "describe_broker", broker_id[p], outcome, None)
                  /\ Stop(p, "fail_json", "Couldn't get broker details.")
    /\ UNCHANGED <<brokers, params, check_mode, broker_id>>

delete_broker(p) ==
    /\ At(p, "delete_broker")
    /\ IF SkipsCall(p)
       THEN /\ Proceed(p, result[p])
            /\ UNCHANGED <<brokers, calls>>
       ELSE \E outcome \in Outcomes :
               /\ outcome = "ok" => broker_id[p] \in KnownIds
               /\ Call(p, "delete_broker", broker_id[p], outcome,
                       IF outcome = "ok" THEN [BrokerId |-> broker_id[p]] ELSE None)
               /\ IF outcome = "ok"
                  THEN /\ brokers' = WithState(broker_id[p], "DELETION_IN_PROGRESS")
                       /\ Proceed(p, result[p])
                  ELSE /\ UNCHANGED brokers
                       /\ Stop(p, "fail_json", "Couldn't delete broker.")
    /\ UNCHANGED <<params, check_mode, broker_id>>

reboot_broker(p) ==
    /\ At(p, "reboot_broker")
    /\ IF SkipsCall(p)
       THEN /\ Proceed(p, result[p])
            /\ UNCHANGED <<brokers, calls>>
       ELSE \E outcome \in Outcomes :
               /\ outcome = "ok" => broker_id[p] \in KnownIds
               /\ Call(p, "reboot_broker", broker_id[p], outcome,
                       IF outcome = "ok" THEN EmptyDict ELSE None)
               /\ IF outcome = "ok"
                  THEN /\ brokers' = WithState(broker_id[p], "REBOOT_IN_PROGRESS")
                       /\ Proceed(p, result[p])
                  ELSE /\ UNCHANGED brokers
                       /\ Stop(p, "fail_json", "Couldn't reboot broker.")
    /\ UNCHANGED <<params, check_mode, broker_id>>

Next ==
    \/ \E p \in Procs : get_broker_id(p) /\ UNCHANGED <<buildVars, userVars>>
    \/ \E p \in Procs : not_found(p) /\ UNCHANGED <<buildVars, userVars>>
    \/ \E p \in Procs : create_broker(p) /\ UNCHANGED <<buildVars, userVars>>
    \/ \E p \in Procs : update_broker(p) /\ UNCHANGED <<buildVars, userVars>>
    \/ \E p \in Procs : get_broker_info(p) /\ UNCHANGED <<buildVars, userVars>>
    \/ \E p \in Procs : delete_broker(p) /\ UNCHANGED <<buildVars, userVars>>
    \/ \E p \in Procs : reboot_broker(p) /\ UNCHANGED <<buildVars, userVars>>

Spec == Init /\ [][Next]_vars

---------------------------------------------------------------------------
(* Two invocations of main() running at the same time against one remote *)
(* system; each is its own process and shares nothing with the other     *)

Racers == {1, 2}

\* module.params of a racing invocation: the required parameters and the
\* argument_spec defaults, with or without security groups
RacerParams ==
    UNION { Descriptors(Put(Put(ArgSpecDefaults, "broker_name", n), "state", st),
                        <<"security_groups">>, 1) :
                n \in RequestNames, st \in States }

InitRace ==
    /\ brokers \in Listings(MaxBrokers)
    /\ calls = <<>>
    /\ \E chosen \in [Racers -> RacerParams] :
          params = [p \in Procs |-> IF p \in Racers THEN chosen[p] ELSE EmptyDict]
    /\ \E modes \in [Racers -> BOOLEAN] :
          check_mode = [p \in Procs |-> IF p \in Racers THEN modes[p] ELSE FALSE]
    /\ pc = [p \in Procs |-> IF p \in Racers THEN <<"get_broker_id">> ELSE <<>>]
    /\ broker_id = [p \in Procs |-> None]
    /\ exit = [p \in Procs |-> IF p \in Racers THEN "running" ELSE "idle"]
    /\ msg = [p \in Procs |-> ""]
    /\ result = [p \in Procs |-> EmptyDict]
    /\ changed = [p \in Procs |-> FALSE]
    /\ BuilderIdle
    /\ UsersIdle

SpecRace == InitRace /\ [][Next]_vars

---------------------------------------------------------------------------
(* The Parameter Set Builder as a function of its arguments *)

\* any flat mapping of at most MaxSupplied non-None parameters
InitBuild ==
    /\ desired_state \in Descriptors(EmptyDict, ParamsOrder, MaxSupplied)
    /\ use_defaults \in BOOLEAN
    /\ drop_create_only \in BOOLEAN
    /\ request = EmptyDict
    /\ built = FALSE
    /\ brokers = <<>>
    /\ calls = <<>>
    /\ params = [p \in Procs |-> EmptyDict]
    /\ check_mode = [p \in Procs |-> FALSE]
    /\ pc = [p \in Procs |-> <<>>]
    /\ broker_id = [p \in Procs |-> None]
    /\ exit = [p \in Procs |-> "idle"]
    /\ msg = [p \in Procs |-> ""]
    /\ result = [p \in Procs |-> EmptyDict]
    /\ changed = [p \in Procs |-> FALSE]
    /\ UsersIdle

Build ==
    /\ ~built
    /\ request' = _fill_kwargs(desired_state, use_defaults, drop_create_only)
    /\ built' = TRUE
    /\ UNCHANGED <<desired_state, use_defaults, drop_create_only>>
    /\ UNCHANGED <<remoteVars, procVars, userVars>>

NextBuild == Build

SpecBuild == InitBuild /\ [][NextBuild]_vars

\* whether the nested mapping data has something at path
RECURSIVE HasPath(_, _)
HasPath(data, path) ==
    /\ Head(path) \in DOMAIN data
    /\ Len(path) > 1 => HasPath(data[Head(path)], Tail(path))

\* the value the nested mapping data holds at path
RECURSIVE ValueAt(_, _)
ValueAt(data, path) ==
    IF Len(path) > 1 THEN ValueAt(data[Head(path)], Tail(path)) ELSE data[Head(path)]

---------------------------------------------------------------------------
(* mq_broker_info.py: the describe entry point *)

\* module.params[name], None when the caller gave none
Param(module_params, name) ==
    IF name \in DOMAIN module_params THEN module_params[name] ELSE None

\* identifiers a caller may name: those of the listing and one of no broker
InfoIds == {BrokerIdOf(n) : n \in 0..MaxListing}

\* module.params of mq_broker_info: broker_id and broker_name, both optional
InfoParams ==
    LET named == Descriptors(EmptyDict, <<"broker_name">>, 1)
    IN  named \cup { Put(d, "broker_id", id) : d \in named, id \in InfoIds }

NeitherGiven == "Either 'broker_id' or 'broker_name' must be specified"

\* InfoFlow that resolves the name whenever one is given
InfoFlowNameFirst(module_params) ==
    IF ~Truthy(Param(module_params, "broker_id"))
          /\ ~Truthy(Param(module_params, "broker_name"))
    THEN <<"neither_given">>
    ELSE IF Truthy(Param(module_params, "broker_name"))
         THEN <<"info_get_broker_id", "info_get_broker_info">>
         ELSE <<"info_get_broker_info">>

\* what main() of mq_broker_info does with its two parameters
InfoFlow(module_params) ==
    IF ~Truthy(Param(module_params, "broker_id"))
          /\ ~Truthy(Param(module_params, "broker_name"))
    THEN <<"neither_given">>
    ELSE IF ~Truthy(Param(module_params, "broker_id"))
         THEN <<"info_get_broker_id", "info_get_broker_info">>
         ELSE <<"info_get_broker_info">>

InitInfo ==
    /\ brokers \in Listings(MaxListing)
    /\ calls = <<>>
    /\ \E chosen \in InfoParams :
          /\ params = [p \in Procs |-> IF p = 1 THEN chosen ELSE EmptyDict]
          /\ pc = [p \in Procs |-> IF p = 1 THEN InfoFlow(chosen) ELSE <<>>]
          /\ broker_id = [p \in Procs |->
                            IF p = 1 THEN Param(chosen, "broker_id") ELSE None]
    /\ check_mode \in [Procs -> BOOLEAN]
    /\ \A p \in Procs : p /= 1 => ~check_mode[p]
    /\ exit = [p \in Procs |-> IF p = 1 THEN "running" ELSE "idle"]
    /\ msg = [p \in Procs |-> ""]
    /\ result = [p \in Procs |-> EmptyDict]
    /\ changed = [p \in Procs |-> FALSE]
    /\ BuilderIdle
    /\ UsersIdle

neither_given(p) ==
    /\ At(p, "neither_given")
    /\ Stop(p, "fail_json", NeitherGiven)
    /\ UNCHANGED <<brokers, calls, params, check_mode, broker_id>>

info_get_broker_id(p) ==
    /\ At(p, "info_get_broker_id")
    /\ \E outcome \in Outcomes :
          IF outcome = "ok"
          THEN LET response == [BrokerSummaries |-> brokers]
                   id == ScanBrokerId(response.BrokerSummaries, params[p].broker_name)
               IN  /\ Call(p, "list_brokers", None, outcome, response)
                   /\ broker_id' = [broker_id EXCEPT ![p] = id]
                   /\ pc' = [pc EXCEPT ![p] = Tail(pc[p])]
                   /\ UNCHANGED <<exit, msg, result, changed>>
          ELSE /\ Call(p, "list_brokers", None, outcome, None)
               /\ Stop(p, "fail_json", "Couldn't list broker brokers.")
               /\ UNCHANGED broker_id
    /\ UNCHANGED <<brokers, params, check_mode>>

\* get_broker_info of mq_broker_info, then exit_json(broker=result)
info_get_broker_info(p) ==
    /\ At(p, "info_get_broker_info")
    /\ \E outcome \in Outcomes :
          /\ outcome = "ok" => broker_id[p] \in KnownIds
          /\ IF outcome = "ok"
             THEN /\ Call(p, "describe_broker", broker_id[p], outcome, Described(broker_id[p]))
                  /\ pc' = [pc EXCEPT ![p] = Tail(pc[p])]
                  /\ result' = [result EXCEPT ![p] = Described(broker_id[p])]
                  /\ exit' = [exit EXCEPT ![p] = "exit_json"]
                  /\ UNCHANGED <<msg, changed>>
             ELSE /\ Call(p, "describe_broker", broker_id[p], outcome, None)
                  /\ Stop(p, "fail_json", "Couldn't get broker details.")
    /\ UNCHANGED <<brokers, params, check_mode, broker_id>>

NextInfo ==
    \/ \E p \in Procs : neither_given(p) /\ UNCHANGED <<buildVars, userVars>>
    \/ \E p \in Procs : info_get_broker_id(p) /\ UNCHANGED <<buildVars, userVars>>
    \/ \E p \in Procs : info_get_broker_info(p) /\ UNCHANGED <<buildVars, userVars>>

SpecInfo == InitInfo /\ [][NextInfo]_vars

---------------------------------------------------------------------------
(* mq_user_info: the paginated listing of a broker's users *)

\* DEFAULTS of mq_user_info.py
UserDefaults ==
    [ skip_pending_create |-> FALSE,
      skip_pending_delete |-> FALSE,
      as_dict             |-> TRUE,
      page_size           |-> 100 ]

\* a Python list and a Python dict as a returned value
PyList(value) == [type |-> "list", value |-> value]
PyDict(value) == [type |-> "dict", value |-> value]

\* user records the server holds
UserRecords ==
    { [Username |-> "u1"],
      [Username |-> "u1", PendingChange |-> "CREATE"],
      [Username |-> "u2", PendingChange |-> "DELETE"],
      [Username |-> "u2", PendingChange |-> "UPDATE"] }

UserListings(n) == UNION { [1..k -> UserRecords] : k \in 0..n }

\* module.params of mq_user_info
UserParams ==
    { [broker_id |-> BrokerIdOf(1), skip_pending_create |-> c,
       skip_pending_delete |-> d, as_dict |-> a] : c, d, a \in BOOLEAN }

\* the server's cursors: a cursor names the position the next page starts at
TokenOf(position) == "tok-" \o ToString(position)
PositionOf(token) ==
    IF token = "" THEN 0
    ELSE CHOOSE position \in 0..Len(all_users) : TokenOf(position) = token

\* the responses list_users can give to a request: a page of at most
\* MaxResults of the remaining users, and a cursor while users remain; a
\* page may be empty, and then the cursor names the same position again
ListUsersResponses(kwargs) ==
    LET from == PositionOf(kwargs.NextToken)
        Min(a, b) == IF a < b THEN a ELSE b
    IN  { IF from + k < Len(all_users)
          THEN [Users |-> SubSeq(all_users, from + 1, from + k),
                NextToken |-> TokenOf(from + k)]
          ELSE [Users |-> SubSeq(all_users, from + 1, from + k)] :
              k \in 0..Min(kwargs.MaxResults, Len(all_users) - from) }

\* Gathered with the page replacing what was gathered
GatheredPageOnly(gathered, response) == response.Users

\* records += response['Users']
Gathered(gathered, response) == gathered \o response.Users

\* the cursor of the next request
NextTokenOf(response) ==
    IF "NextToken" \in DOMAIN response THEN response.NextToken ELSE None

\* FilterRecords that honours skip_pending_create only
FilterRecordsCreateOnly(fetched, module_params) ==
    LET Kept(record) ==
            ~ /\ "PendingChange" \in DOMAIN record
              /\ record.PendingChange = "CREATE"
              /\ module_params.skip_pending_create
    IN  SelectSeq(fetched, Kept)

\* the filtering of get_user_info
FilterRecords(fetched, module_params) ==
    IF ~module_params.skip_pending_create /\ ~module_params.skip_pending_delete
    THEN fetched
    ELSE LET Skipped(record) ==
                 /\ "PendingChange" \in DOMAIN record
                 /\ \/ record.PendingChange = "CREATE" /\ module_params.skip_pending_create
                    \/ record.PendingChange = "DELETE" /\ module_params.skip_pending_delete
             Kept(record) == ~Skipped(record)
         IN  SelectSeq(fetched, Kept)

\* for record in records: user_records[record['Username']] = record
RECURSIVE KeyByUsername(_, _)
KeyByUsername(user_records, remaining) ==
    IF remaining = <<>> THEN user_records
    ELSE KeyByUsername(Put(user_records, Head(remaining).Username, Head(remaining)),
                       Tail(remaining))

\* the projection of get_user_info: "if DEFAULTS['as_dict']"
Projected(filtered, module_params) ==
    IF UserDefaults.as_dict
    THEN PyDict(KeyByUsername(EmptyDict, filtered))
    ELSE PyList(filtered)

InitUsers ==
    /\ all_users \in UserListings(MaxUsers)
    /\ FetchNotStarted
    /\ brokers = <<>>
    /\ calls = <<>>
    /\ \E chosen \in UserParams :
          params = [p \in Procs |-> IF p = 1 THEN chosen ELSE EmptyDict]
    /\ check_mode = [p \in Procs |-> FALSE]
    /\ pc = [p \in Procs |-> IF p = 1 THEN <<"get_user_records", "get_user_info">>
                             ELSE <<>>]
    /\ broker_id = [p \in Procs |-> None]
    /\ exit = [p \in Procs |-> IF p = 1 THEN "running" ELSE "idle"]
    /\ msg = [p \in Procs |-> ""]
    /\ result = [p \in Procs |-> EmptyDict]
    /\ changed = [p \in Procs |-> FALSE]
    /\ BuilderIdle

\* one pass of "while next_token or first_query"; an exception of list_users
\* is caught in get_user_info
get_user_records(p) ==
    /\ At(p, "get_user_records")
    /\ Truthy(next_token[p]) \/ first_query[p]
    /\ Cardinality({i \in DOMAIN calls : calls[i].proc = p}) < MaxRequests
    /\ LET kwargs == [BrokerId |-> params[p].broker_id,
                      MaxResults |-> UserDefaults.page_size,
                      NextToken |-> next_token[p]]
       IN  \/ \E response \in ListUsersResponses(kwargs) :
                 /\ Call(p, "list_users", kwargs, "ok", response)
                 /\ first_query' = [first_query EXCEPT ![p] = FALSE]
                 /\ response_records' = [response_records EXCEPT
                                            ![p] = Gathered(response_records[p], response)]
                 /\ next_token' = [next_token EXCEPT ![p] = NextTokenOf(response)]
                 /\ pc' = [pc EXCEPT ![p] = IF Truthy(NextTokenOf(response))
                                            THEN pc[p] ELSE Tail(pc[p])]
                 /\ UNCHANGED <<exit, msg, result, changed>>
           \/ \E fault \in Faults :
                 /\ Call(p, "list_users", kwargs, fault, None)
                 /\ Stop(p, "fail_json", "Failed to describe users")
                 /\ UNCHANGED <<first_query, response_records, next_token>>
    /\ UNCHANGED <<brokers, params, check_mode, broker_id, all_users, records>>

\* the rest of get_user_info, then exit_json(users=user_records)
get_user_info(p) ==
    /\ At(p, "get_user_info")
    /\ LET filtered == FilterRecords(response_records[p], params[p])
       IN  /\ records' = [records EXCEPT ![p] = filtered]
           /\ result' = [result EXCEPT ![p] = [users |-> Projected(filtered, params[p])]]
    /\ pc' = [pc EXCEPT ![p] = Tail(pc[p])]
    /\ exit' = [exit EXCEPT ![p] = "exit_json"]
    /\ UNCHANGED <<msg, changed>>
    /\ UNCHANGED <<brokers, calls, params, check_mode, broker_id>>
    /\ UNCHANGED <<all_users, next_token, first_query, response_records>>

NextUsers ==
    \/ \E p \in Procs : get_user_records(p) /\ UNCHANGED buildVars
    \/ \E p \in Procs : get_user_info(p) /\ UNCHANGED buildVars

SpecUsers == InitUsers /\ [][NextUsers]_vars

---------------------------------------------------------------------------
(* Reading the call log *)

CallsOf(p, op) == {i \in DOMAIN calls : calls[i].proc = p /\ calls[i].op = op}
Mutating == {"create_broker", "update_broker", "delete_broker", "reboot_broker"}
Finished(p) == exit[p] \in {"exit_json", "fail_json", "traceback"}
Located(p) == CallsOf(p, "list_brokers") /= {}
                 /\ \A i \in CallsOf(p, "list_brokers") : calls[i].outcome = "ok"

TypeOK ==
    /\ \A p \in Procs : exit[p] \in {"idle", "running", "exit_json", "fail_json", "traceback"}
    /\ \A p \in Procs : changed[p] \in BOOLEAN
    /\ \A i \in DOMAIN calls : calls[i].proc \in Procs

---------------------------------------------------------------------------
(* Properties of the Reconciliation Controller (specification Spec) *)

NumCalls(p, op) == Cardinality(CallsOf(p, op))
AllCallsOk(p) == \A i \in DOMAIN calls : calls[i].proc = p => calls[i].outcome = "ok"

\* the caller's input passes the validation of creation: LDAP is not asked
\* for and at least one security group is given
CreateInputValid(module_params) ==
    /\ "authentication_strategy" \in DOMAIN module_params
          => module_params["authentication_strategy"] /= "LDAP"
    /\ "security_groups" \in DOMAIN module_params
    /\ Len(module_params["security_groups"]) > 0

PresentAbsent(p) ==
    Located(p) /\ params[p]["state"] = "present" /\ ~Truthy(broker_id[p])
PresentExisting(p) ==
    Located(p) /\ params[p]["state"] = "present" /\ Truthy(broker_id[p])

\* every call returned, so main() has a result to hand out, with changed=true
ResultChanged(p) == AllCallsOk(p) => (exit[p] = "exit_json" /\ changed[p])

\* C1 as stated: state=present issues exactly one create and no update when
\* the name resolves to nothing (valid input, no dry-run), and exactly one
\* update and no create when it resolves to an identifier; the result
\* carries changed=true.
C1_AsStated ==
    \A p \in Procs :
        /\ (Finished(p) /\ PresentAbsent(p)
              /\ CreateInputValid(params[p]) /\ ~check_mode[p]) =>
                /\ NumCalls(p, "create_broker") = 1
                /\ NumCalls(p, "update_broker") = 0
                /\ ResultChanged(p)
        /\ (Finished(p) /\ PresentExisting(p)) =>
                /\ NumCalls(p, "update_broker") = 1
                /\ NumCalls(p, "create_broker") = 0
                /\ ResultChanged(p)

\* C1 amended: as C1, but the single update call is issued only when the run
\* is no dry-run; a dry-run against an existing broker issues no update call
\* and still reports changed=true.
C1_PresentDispatch ==
    \A p \in Procs :
        /\ (Finished(p) /\ PresentAbsent(p)
              /\ CreateInputValid(params[p]) /\ ~check_mode[p]) =>
                /\ NumCalls(p, "create_broker") = 1
                /\ NumCalls(p, "update_broker") = 0
                /\ ResultChanged(p)
        /\ (Finished(p) /\ PresentExisting(p)) =>
                /\ NumCalls(p, "update_broker") = (IF check_mode[p] THEN 0 ELSE 1)
                /\ NumCalls(p, "create_broker") = 0
                /\ ResultChanged(p)

C1_Witness ==
    \E p \in Procs :
        /\ Finished(p) /\ PresentExisting(p) /\ ~check_mode[p]
        /\ NumCalls(p, "update_broker") = 1
        /\ exit[p] = "exit_json" /\ changed[p]

\* C2: state=absent or restarted against a broker the locator does not find
\* fails with the not-found message and issues no delete, reboot or
\* describe call.
C2_NotFoundFails ==
    \A p \in Procs :
        (Located(p) /\ params[p]["state"] \in {"absent", "restarted"}
            /\ ~Truthy(broker_id[p])) =>
            /\ NumCalls(p, "delete_broker") = 0
            /\ NumCalls(p, "reboot_broker") = 0
            /\ NumCalls(p, "describe_broker") = 0
            /\ exit[p] /= "exit_json"
            /\ Finished(p) => (exit[p] = "fail_json" /\ msg[p] = NotFoundMsg)
            /\ ~Finished(p) => pc[p] = <<"not_found">>

C2_Witness ==
    \E p \in Procs :
        /\ Located(p) /\ params[p]["state"] = "absent" /\ ~Truthy(broker_id[p])
        /\ exit[p] = "fail_json" /\ msg[p] = NotFoundMsg
        /\ \E i \in DOMAIN brokers : brokers[i].BrokerName = "B"

\* C3: in check mode no create, update, delete or reboot call is issued,
\* whatever the target state and whether or not the broker exists; a
\* dry-run creation with valid input still returns the placeholder
\* identifier and ARN with changed=true.
C3_DryRun ==
    \A p \in Procs :
        check_mode[p] =>
            /\ \A op \in Mutating : NumCalls(p, op) = 0
            /\ (Finished(p) /\ PresentAbsent(p) /\ CreateInputValid(params[p])) =>
                    /\ exit[p] = "exit_json"
                    /\ changed[p]
                    /\ result[p]["BrokerId"] = "fakeId"
                    /\ result[p]["BrokerArn"] = "fakeArn"

C3_Witness ==
    \E p \in Procs :
        /\ check_mode[p] /\ Finished(p) /\ PresentAbsent(p)
        /\ CreateInputValid(params[p])
        /\ exit[p] = "exit_json" /\ result[p] = FakeBroker

\* C4: state=absent against an existing broker describes before it deletes,
\* both with the identifier the locator resolved; the payload returned is
\* the description obtained before the delete call, with changed=true.
C4_DescribeThenDelete ==
    \A p \in Procs :
        (Located(p) /\ params[p]["state"] = "absent" /\ Truthy(broker_id[p])) =>
            /\ NumCalls(p, "reboot_broker") = 0
            /\ \A i \in CallsOf(p, "describe_broker") \cup CallsOf(p, "delete_broker") :
                  calls[i].arg = broker_id[p]
            /\ \A j \in CallsOf(p, "delete_broker") :
                  \E i \in CallsOf(p, "describe_broker") :
                      i < j /\ calls[i].outcome = "ok"
            /\ exit[p] = "exit_json" =>
                  /\ changed[p]
                  /\ NumCalls(p, "delete_broker") = (IF check_mode[p] THEN 0 ELSE 1)
                  /\ \E i \in CallsOf(p, "describe_broker") :
                        /\ result[p] = calls[i].resp
                        /\ \A j \in CallsOf(p, "delete_broker") : i < j

C4_Witness ==
    \E p \in Procs :
        /\ Located(p) /\ params[p]["state"] = "absent"
        /\ exit[p] = "exit_json" /\ ~check_mode[p]
        /\ NumCalls(p, "delete_broker") = 1
        /\ result[p]["BrokerState"] = "RUNNING"
        /\ Described(broker_id[p]).BrokerState = "DELETION_IN_PROGRESS"

\* C5: state=restarted against an existing broker reboots before it
\* describes; the payload returned is the description obtained after the
\* reboot call, with changed=true.
C5_RebootThenDescribe ==
    \A p \in Procs :
        (Located(p) /\ params[p]["state"] = "restarted" /\ Truthy(broker_id[p])) =>
            /\ NumCalls(p, "delete_broker") = 0
            /\ \A i \in CallsOf(p, "describe_broker") \cup CallsOf(p, "reboot_broker") :
                  calls[i].arg = broker_id[p]
            /\ ~check_mode[p] =>
                  \A i \in CallsOf(p, "describe_broker") :
                      \E j \in CallsOf(p, "reboot_broker") :
                          j < i /\ calls[j].outcome = "ok"
            /\ exit[p] = "exit_json" =>
                  /\ changed[p]
                  /\ NumCalls(p, "reboot_broker") = (IF check_mode[p] THEN 0 ELSE 1)
                  /\ \E i \in CallsOf(p, "describe_broker") :
                        /\ result[p] = calls[i].resp
                        /\ \A j \in CallsOf(p, "reboot_broker") : j < i

C5_Witness ==
    \E p \in Procs :
        /\ Located(p) /\ params[p]["state"] = "restarted"
        /\ exit[p] = "exit_json" /\ ~check_mode[p]
        /\ NumCalls(p, "reboot_broker") = 1
        /\ result[p]["BrokerState"] = "REBOOT_IN_PROGRESS"

\* C6: a creation whose input fails validation (LDAP asked for; security
\* groups missing or empty) ends in a failure and issues no create call, in
\* normal and in check mode.
C6_ValidationBeforeCreate ==
    \A p \in Procs :
        (PresentAbsent(p) /\ ~CreateInputValid(params[p])) =>
            /\ NumCalls(p, "create_broker") = 0
            /\ exit[p] /= "exit_json"
            /\ Finished(p) =>
                  /\ exit[p] = "fail_json"
                  /\ msg[p] \in {LdapNotSupported, NoSecurityGroup}
            /\ ~Finished(p) => pc[p] = <<"create_broker">>

C6_Witness ==
    \E p \in Procs :
        /\ PresentAbsent(p) /\ ~check_mode[p]
        /\ "security_groups" \in DOMAIN params[p]
        /\ params[p]["security_groups"] = <<>>
        /\ exit[p] = "fail_json" /\ msg[p] = NoSecurityGroup

SuppliedCreateOnly(p) == CREATE_ONLY_PARAMS \cap DOMAIN params[p]

\* C7 as stated: an update is rejected, with no update call, whenever the
\* desired state has a non-null creation-only parameter, and accepted when
\* it has none.
C7_AsStated ==
    \A p \in Procs :
        (Finished(p) /\ PresentExisting(p)) =>
            IF SuppliedCreateOnly(p) /= {}
            THEN exit[p] = "fail_json" /\ NumCalls(p, "update_broker") = 0
            ELSE AllCallsOk(p) => exit[p] = "exit_json"

\* C7 amended: update_broker rejects nothing: a non-null creation-only
\* parameter is left out of the update request, the update call is issued
\* all the same (unless in check mode), and the invocation fails only when
\* a transport call fails; without such parameters the update is accepted
\* as well.
C7_CreateOnlyDroppedOnUpdate ==
    \A p \in Procs :
        PresentExisting(p) =>
            /\ \A i \in CallsOf(p, "update_broker") :
                  /\ \A k \in CREATE_ONLY_PARAMS \cap DOMAIN PARAMS_MAP :
                        ~HasPath(calls[i].arg, PARAMS_MAP[k])
                  /\ "Tags" \notin DOMAIN calls[i].arg
            /\ Finished(p) =>
                  /\ NumCalls(p, "update_broker") = (IF check_mode[p] THEN 0 ELSE 1)
                  /\ AllCallsOk(p) => exit[p] = "exit_json"
                  /\ exit[p] /= "exit_json" => msg[p] \in Faults

C7_Witness ==
    \E p \in Procs :
        /\ Finished(p) /\ PresentExisting(p) /\ ~check_mode[p]
        /\ "kms_key_id" \in SuppliedCreateOnly(p)
        /\ NumCalls(p, "update_broker") = 1
        /\ exit[p] = "exit_json"

\* C9: every creation-only parameter the caller supplies has an entry in
\* PARAMS_MAP and is written into the create request; supplied tags are
\* part of the create request.
C9_CreateOnlyWritten ==
    \A i \in DOMAIN calls :
        calls[i].op = "create_broker" =>
            \A k \in SuppliedCreateOnly(calls[i].proc) :
                /\ k \in DOMAIN PARAMS_MAP
                /\ HasPath(calls[i].arg, PARAMS_MAP[k])

\* C10: without kms_key_id, UseAwsOwnedKey in the create request is the
\* caller's use_aws_owned_key, or the default true when the caller gave none.
C10_OwnedKeyFlag ==
    \A i \in DOMAIN calls :
        (calls[i].op = "create_broker"
            /\ "kms_key_id" \notin DOMAIN params[calls[i].proc]) =>
            ValueAt(calls[i].arg, PARAMS_MAP["use_aws_owned_key"]) =
                (IF "use_aws_owned_key" \in DOMAIN params[calls[i].proc]
                 THEN params[calls[i].proc]["use_aws_owned_key"]
                 ELSE DEFAULTS["use_aws_owned_key"])

\* C11: with kms_key_id supplied, the create request carries that key id
\* and UseAwsOwnedKey=false, whatever use_aws_owned_key the caller gave.
C11_KmsKeyForcesFlagOff ==
    \A i \in DOMAIN calls :
        (calls[i].op = "create_broker"
            /\ "kms_key_id" \in DOMAIN params[calls[i].proc]) =>
            /\ HasPath(calls[i].arg, PARAMS_MAP["kms_key_id"])
            /\ calls[i].arg["EncryptionOptions"]["KmsKeyId"]
                  = params[calls[i].proc]["kms_key_id"]
            /\ calls[i].arg["EncryptionOptions"]["UseAwsOwnedKey"] = FALSE

C11_Witness ==
    \E i \in DOMAIN calls :
        /\ calls[i].op = "create_broker"
        /\ calls[i].outcome = "ok"
        /\ "kms_key_id" \in DOMAIN params[calls[i].proc]
        /\ "use_aws_owned_key" \in DOMAIN params[calls[i].proc]
        /\ params[calls[i].proc]["use_aws_owned_key"] = TRUE
        /\ calls[i].arg["EncryptionOptions"]["UseAwsOwnedKey"] = FALSE

\* C12: a create request carries exactly one default administrative user
\* when the caller supplied no user list, and exactly the caller's list
\* otherwise; hence every create request carries at least one user.
C12_UsersInCreate ==
    \A i \in DOMAIN calls :
        calls[i].op = "create_broker" =>
            /\ "Users" \in DOMAIN calls[i].arg
            /\ IF "users" \in DOMAIN params[calls[i].proc]
               THEN calls[i].arg["Users"] = params[calls[i].proc]["users"]
               ELSE /\ Len(calls[i].arg["Users"]) = 1
                    /\ calls[i].arg["Users"][1].Username = "admin"
            /\ Len(calls[i].arg["Users"]) >= 1

---------------------------------------------------------------------------
(* Properties of the Parameter Set Builder (specification SpecBuild) *)

\* C8: a body built with apply_defaults=false and ignore_create_params=true
\* has no leaf at the path of any creation-only parameter; it is empty when
\* the desired state holds creation-only parameters only.
C8_SuppressedBody ==
    (built /\ ~use_defaults /\ drop_create_only) =>
        /\ \A k \in CREATE_ONLY_PARAMS \cap DOMAIN PARAMS_MAP :
              ~HasPath(request, PARAMS_MAP[k])
        /\ DOMAIN desired_state \subseteq CREATE_ONLY_PARAMS => request = EmptyDict

C8_Witness ==
    /\ built /\ ~use_defaults /\ drop_create_only
    /\ Cardinality(DOMAIN desired_state) >= 2
    /\ DOMAIN desired_state \subseteq CREATE_ONLY_PARAMS
    /\ request = EmptyDict

---------------------------------------------------------------------------
(* Properties of the Resource Locator and of the describe entry point
   (specification SpecInfo) *)

\* the positions of the listing response whose name is exactly name
Matches(summaries, name) ==
    {i \in DOMAIN summaries : summaries[i].BrokerName = name}

\* C17: the locator returns the identifier of the first listed broker whose
\* name equals the requested name exactly, and None, without raising, when
\* no name matches (an empty listing included).
C17_FirstExactMatch ==
    \A p \in Procs : \A i \in CallsOf(p, "list_brokers") :
        calls[i].outcome = "ok" =>
            LET summaries == calls[i].resp.BrokerSummaries
                matches == Matches(summaries, params[p]["broker_name"])
            IN  /\ matches = {} =>
                      /\ broker_id[p] = None
                      /\ msg[p] /= "Couldn't list broker brokers."
                /\ \A m \in matches :
                      (\A n \in matches : m <= n) => broker_id[p] = summaries[m].BrokerId

C17_Witness ==
    \E p \in Procs : \E i \in CallsOf(p, "list_brokers") :
        /\ calls[i].outcome = "ok"
        /\ Len(calls[i].resp.BrokerSummaries) = 3
        /\ calls[i].resp.BrokerSummaries[1].BrokerName = "B"
        /\ Matches(calls[i].resp.BrokerSummaries, params[p]["broker_name"]) = {2, 3}
        /\ broker_id[p] = BrokerIdOf(2)

NameOnly(p) ==
    /\ exit[p] /= "idle"
    /\ "broker_id" \notin DOMAIN params[p]
    /\ "broker_name" \in DOMAIN params[p]

\* C18: called with a name only that matches no listed broker, the describe
\* entry point fails with a not-found fault and issues no describe call;
\* called with neither identifier nor name it fails before any remote call.
C18_DescribeNotFound ==
    \A p \in Procs :
        /\ (NameOnly(p) /\ Located(p) /\ ~Truthy(broker_id[p])) =>
              /\ NumCalls(p, "describe_broker") = 0
              /\ Finished(p) => (exit[p] = "fail_json" /\ msg[p] = NotFoundMsg)
        /\ (exit[p] /= "idle" /\ DOMAIN params[p] = {}) =>
              /\ \A i \in DOMAIN calls : calls[i].proc /= p
              /\ Finished(p) => (exit[p] = "fail_json" /\ msg[p] = NeitherGiven)

\* C19: with an identifier supplied the describe entry point ignores the
\* name: it issues no listing call and describes exactly that identifier,
\* whether or not the name resolves to another broker.
C19_IdentifierWins ==
    \A p \in Procs :
        (exit[p] /= "idle" /\ "broker_id" \in DOMAIN params[p]) =>
            /\ NumCalls(p, "list_brokers") = 0
            /\ \A i \in CallsOf(p, "describe_broker") :
                  calls[i].arg = params[p]["broker_id"]
            /\ Finished(p) => NumCalls(p, "describe_broker") = 1
            /\ exit[p] = "exit_json" => result[p].BrokerId = params[p]["broker_id"]

C19_Witness ==
    \E p \in Procs :
        /\ exit[p] = "exit_json"
        /\ "broker_id" \in DOMAIN params[p]
        /\ "broker_name" \in DOMAIN params[p]
        /\ params[p]["broker_id"] = BrokerIdOf(2)
        /\ ScanBrokerId(brokers, params[p]["broker_name"]) = BrokerIdOf(1)
        /\ result[p].BrokerId = BrokerIdOf(2)
        /\ NumCalls(p, "list_brokers") = 0

---------------------------------------------------------------------------
(* Defaults and overlay in the Parameter Set Builder (specification SpecBuild) *)

\* the Default Table in nested form
DefaultsNested ==
    [ AuthenticationStrategy  |-> "SIMPLE",
      AutoMinorVersionUpgrade |-> FALSE,
      DeploymentMode          |-> "SINGLE_INSTANCE",
      EncryptionOptions       |-> [UseAwsOwnedKey |-> TRUE],
      EngineType              |-> "ACTIVEMQ",
      EngineVersion           |-> "5.15.13",
      HostInstanceType        |-> "mq.t3.micro",
      Logs                    |-> [Audit |-> FALSE, General |-> FALSE],
      PubliclyAccessible      |-> FALSE,
      StorageType             |-> "EFS" ]

\* the mapped parameters that have a value: the caller's or a default
Valued(descriptor) ==
    DOMAIN PARAMS_MAP \cap (DOMAIN descriptor \cup DOMAIN DEFAULTS)

\* every order in which the keys of a descriptor can be visited
VisitOrders(descriptor) ==
    LET keys == DOMAIN descriptor
    IN  { o \in [1..Cardinality(keys) -> keys] :
              \A i, j \in 1..Cardinality(keys) : o[i] = o[j] => i = j }

\* C20: with apply_defaults=true and no suppression the body is the Default
\* Table overlaid by the caller's values: each mapped leaf holds the
\* caller's value if supplied, else the default if there is one; there is
\* no other leaf; an empty desired state gives exactly the nested Default
\* Table; the order of visiting the desired-state keys does not matter.
C20_DefaultsOverlaid ==
    (built /\ use_defaults /\ ~drop_create_only) =>
        /\ \A k \in DOMAIN PARAMS_MAP :
              /\ HasPath(request, PARAMS_MAP[k]) <=> k \in Valued(desired_state)
              /\ k \in Valued(desired_state) =>
                    ValueAt(request, PARAMS_MAP[k]) =
                        (IF k \in DOMAIN desired_state THEN desired_state[k]
                         ELSE DEFAULTS[k])
        /\ DOMAIN request = {PARAMS_MAP[k][1] : k \in Valued(desired_state)}
        /\ \A k \in Valued(desired_state) :
              Len(PARAMS_MAP[k]) = 2 =>
                  DOMAIN request[PARAMS_MAP[k][1]] =
                      { PARAMS_MAP[j][2] :
                            j \in { n \in Valued(desired_state) :
                                      /\ Len(PARAMS_MAP[n]) = 2
                                      /\ PARAMS_MAP[n][1] = PARAMS_MAP[k][1] } }
        /\ DOMAIN desired_state = {} => request = DefaultsNested
        /\ \A order \in VisitOrders(desired_state) :
              FillVisiting(order, desired_state, TRUE, FALSE) = request

C20_Witness ==
    /\ built /\ use_defaults /\ ~drop_create_only
    /\ DOMAIN desired_state = {"enable_audit_log", "kms_key_id"}
    /\ request["Logs"] = [Audit |-> TRUE, General |-> FALSE]
    /\ request["EncryptionOptions"] = [UseAwsOwnedKey |-> TRUE, KmsKeyId |-> "key-1"]

---------------------------------------------------------------------------
(* Properties of the user listing (specification SpecUsers) *)

\* the list_users calls of invocation p, and the one that follows call i
Requests(p) == CallsOf(p, "list_users")
Answered(i) == calls[i].outcome = "ok"
HasCursor(i) == Answered(i) /\ "NextToken" \in DOMAIN calls[i].resp
FollowedBy(p, i, j) ==
    /\ i \in Requests(p) /\ j \in Requests(p) /\ i < j
    /\ ~\E k \in Requests(p) : i < k /\ k < j

\* the pages of the first n calls of the log that went to invocation p, joined
RECURSIVE PagesJoined(_, _)
PagesJoined(p, n) ==
    IF n = 0 THEN <<>>
    ELSE IF n \in Requests(p) /\ Answered(n)
         THEN PagesJoined(p, n - 1) \o calls[n].resp.Users
         ELSE PagesJoined(p, n - 1)

\* the fetch of invocation p has returned
Fetched(p) == exit[p] = "exit_json" \/ At(p, "get_user_info")

\* C13: when the server returns the same continuation cursor twice the
\* fetcher does not request that cursor again (the fetch ends as a fault),
\* and a first response without a cursor ends the fetch after one request.
C13_RepeatedCursorEndsFetch ==
    \A p \in Procs :
        /\ \A i, j, k \in Requests(p) :
              (/\ FollowedBy(p, i, j) /\ FollowedBy(p, j, k)
               /\ HasCursor(i) /\ HasCursor(j)
               /\ calls[i].resp.NextToken = calls[j].resp.NextToken)
                  => calls[k].arg.NextToken /= calls[j].resp.NextToken
        /\ \A i \in Requests(p) :
              (/\ \A j \in Requests(p) : i <= j
               /\ Answered(i) /\ ~HasCursor(i))
                  => Fetched(p) /\ Requests(p) = {i}

\* C14: the first request carries the empty cursor, each later request the
\* cursor of the response before it; the fetch stops at the first response
\* without a cursor; what it returns is the pages' records joined in page
\* order, each page in its own order.
C14_CursorProtocol ==
    \A p \in Procs :
        /\ \A i \in Requests(p) :
              (\A j \in Requests(p) : i <= j) => calls[i].arg.NextToken = ""
        /\ \A i, j \in Requests(p) :
              FollowedBy(p, i, j) =>
                  /\ HasCursor(i)
                  /\ calls[j].arg.NextToken = calls[i].resp.NextToken
        /\ Fetched(p) =>
              \E i \in Requests(p) :
                  /\ \A j \in Requests(p) : j <= i
                  /\ Answered(i) /\ ~HasCursor(i)
        /\ response_records[p] = PagesJoined(p, Len(calls))

C14_Witness ==
    /\ exit[1] = "exit_json"
    /\ Cardinality(Requests(1)) = 2
    /\ \E i, j \in Requests(1) :
          /\ FollowedBy(1, i, j)
          /\ Len(calls[i].resp.Users) = 2
          /\ Len(calls[j].resp.Users) = 1
          /\ calls[i].resp.Users[1] /= calls[i].resp.Users[2]
    /\ response_records[1] = all_users

\* the surviving records' names, and the last survivor of a name
Usernames(survivors) == {survivors[i].Username : i \in DOMAIN survivors}
LastNamed(survivors, name) ==
    LET named == {i \in DOMAIN survivors : survivors[i].Username = name}
    IN  survivors[CHOOSE i \in named : \A j \in named : j <= i]

\* C15: with as_dict false the listing returns the surviving records as an
\* ordered sequence; with as_dict true it returns a mapping whose keys are
\* exactly the surviving names, a duplicated name holding its later record.
C15_ProjectionFollowsAsDict ==
    \A p \in Procs :
        exit[p] = "exit_json" =>
            IF params[p].as_dict
            THEN /\ result[p].users.type = "dict"
                 /\ DOMAIN result[p].users.value = Usernames(records[p])
                 /\ \A name \in Usernames(records[p]) :
                       result[p].users.value[name] = LastNamed(records[p], name)
            ELSE /\ result[p].users.type = "list"
                 /\ result[p].users.value = records[p]

\* the mapping half of C15, which the code does satisfy
C15_MappingKeyedByName ==
    \A p \in Procs :
        (exit[p] = "exit_json" /\ result[p].users.type = "dict") =>
            /\ DOMAIN result[p].users.value = Usernames(records[p])
            /\ \A name \in Usernames(records[p]) :
                  result[p].users.value[name] = LastNamed(records[p], name)

\* a record the options of module_params ask to leave out
Dropped(record, module_params) ==
    /\ "PendingChange" \in DOMAIN record
    /\ \/ module_params.skip_pending_create /\ record.PendingChange = "CREATE"
       \/ module_params.skip_pending_delete /\ record.PendingChange = "DELETE"

\* C16: filtering drops exactly the records marked CREATE when
\* skip_pending_create is set and exactly those marked DELETE when
\* skip_pending_delete is set; every other record survives, unmarked ones
\* included, in the order fetched; with both options off nothing is dropped.
C16_FilterDropsExactly ==
    \A p \in Procs :
        exit[p] = "exit_json" =>
            LET fetched == response_records[p]
                keep == {i \in DOMAIN fetched : ~Dropped(fetched[i], params[p])}
            IN  /\ Len(records[p]) = Cardinality(keep)
                /\ \A i \in keep :
                      records[p][Cardinality({j \in keep : j <= i})] = fetched[i]
                /\ (~params[p].skip_pending_create /\ ~params[p].skip_pending_delete)
                      => records[p] = fetched

C16_Witness ==
    /\ exit[1] = "exit_json"
    /\ params[1].skip_pending_create /\ params[1].skip_pending_delete
    /\ response_records[1] = << [Username |-> "u2", PendingChange |-> "DELETE"],
                                [Username |-> "u2", PendingChange |-> "UPDATE"],
                                [Username |-> "u1", PendingChange |-> "CREATE"] >>
    /\ records[1] = << [Username |-> "u2", PendingChange |-> "UPDATE"] >>

---------------------------------------------------------------------------
(* Properties of concurrent reconciliations (specification SpecRace) *)

\* invocation p found no broker of its name, was asked for "present" with
\* input that creation accepts, outside check mode, and has run to its end
CreatesAfresh(p) ==
    /\ PresentAbsent(p)
    /\ CreateInputValid(params[p])
    /\ ~check_mode[p]
    /\ Finished(p)

\* C21: two concurrent reconciliations with state "present" for one name
\* that both saw the name absent both issue a create call for it: nothing
\* in the engine keeps the creates of one name down to one.
C21_BothCreate ==
    \A p, q \in Procs :
        (/\ p /= q
         /\ CreatesAfresh(p) /\ CreatesAfresh(q)
         /\ params[p].broker_name = params[q].broker_name)
            => \E i \in CallsOf(p, "create_broker"), j \in CallsOf(q, "create_broker") :
                  /\ calls[i].arg["BrokerName"] = params[p].broker_name
                  /\ calls[j].arg["BrokerName"] = params[p].broker_name

C21_Witness ==
    /\ CreatesAfresh(1) /\ CreatesAfresh(2)
    /\ params[1].broker_name = params[2].broker_name
    /\ \E i \in CallsOf(1, "create_broker"), j \in CallsOf(2, "create_broker") :
          calls[i].outcome = "ok" /\ calls[j].outcome = "ok"
    /\ Cardinality({i \in DOMAIN brokers :
                       brokers[i].BrokerName = params[1].broker_name}) = 2

\* the mutating calls of invocation p, and its listing calls
MutatingCalls(p) == {i \in DOMAIN calls : calls[i].proc = p /\ calls[i].op \in Mutating}
ListingCalls(p) == CallsOf(p, "list_brokers")

\* C22: an invocation issues at most one mutating call, and only after its
\* own listing call has returned; an invocation whose listing call raised
\* issues no mutating call.
C22_OneMutationAfterListing ==
    \A p \in Procs :
        /\ Cardinality(MutatingCalls(p)) <= 1
        /\ \A i \in MutatingCalls(p) :
              \E l \in ListingCalls(p) : l < i /\ calls[l].outcome = "ok"
        /\ (\E l \in ListingCalls(p) : calls[l].outcome = "raised")
              => MutatingCalls(p) = {}

C22_Witness ==
    /\ Finished(1) /\ Finished(2)
    /\ \E l \in ListingCalls(1) : calls[l].outcome = "raised"
    /\ MutatingCalls(1) = {}
    /\ \E i \in MutatingCalls(2) : \E j \in MutatingCalls(1) \cup ListingCalls(1) : j < i
    /\ Cardinality(MutatingCalls(2)) = 1

\* the identifier the locator resolved for invocation p, read off the
\* response of its listing call
Resolved(p) ==
    LET l == CHOOSE i \in ListingCalls(p) : calls[i].outcome = "ok"
    IN  ScanBrokerId(calls[l].resp.BrokerSummaries, params[p].broker_name)

\* C23: every update, delete, reboot and describe call of an invocation
\* targets the identifier the locator resolved for its name in that
\* invocation; the update request carries that identifier and no name.
C23_TargetsResolvedId ==
    \A i \in DOMAIN calls :
        LET p == calls[i].proc
        IN  /\ calls[i].op \in {"delete_broker", "reboot_broker", "describe_broker"}
                  => /\ Located(p)
                     /\ Truthy(Resolved(p))
                     /\ calls[i].arg = Resolved(p)
            /\ calls[i].op = "update_broker"
                  => /\ Located(p)
                     /\ Truthy(Resolved(p))
                     /\ "BrokerId" \in DOMAIN calls[i].arg
                     /\ calls[i].arg["BrokerId"] = Resolved(p)
                     /\ "BrokerName" \notin DOMAIN calls[i].arg

C23_Witness ==
    /\ Finished(1) /\ Finished(2)
    /\ params[1].state = "present" /\ params[2].state = "present"
    /\ \E i \in CallsOf(1, "create_broker"), j \in CallsOf(2, "update_broker") :
          /\ i < j
          /\ calls[i].outcome = "ok" /\ calls[j].outcome = "ok"
          /\ calls[j].arg["BrokerId"] = calls[i].resp.BrokerId
          /\ "BrokerName" \notin DOMAIN calls[j].arg

====
